---- MODULE Spec2Model ----
(***************************************************************************)
(* Model of the IGDB proxy worker (src/src/index.ts).                      *)
(*                                                                         *)
(* One inbound call is one run of the `fetch` handler.  The handler        *)
(* suspends at its awaits of the identity provider and of the backend, so  *)
(* a call is a small state machine (pc) and calls sharing an isolate       *)
(* interleave at those points.  The only state shared between calls is the *)
(* external edge cache, written through ctx.waitUntil after the response   *)
(* has been handed to the caller.                                          *)
(*                                                                         *)
(* Texts are sequences of tokens.  A body on the wire is a sequence of     *)
(* byte groups: "BOM" is the UTF-8 byte order mark, "BAD" a byte that is   *)
(* not valid UTF-8, "FFFD" the encoding of U+FFFD, anything else a         *)
(* well-formed character.                                                  *)
(***************************************************************************)
EXTENDS Integers, Sequences, FiniteSets, TLC

VARIABLES calls, cache, env, started, now, firstAcqAt, acqFresh, seen401

vars == <<calls, cache, env, started, now, firstAcqAt, acqFresh, seen401>>

-----------------------------------------------------------------------------
(* Bounds of the model *)

\* inbound calls over one run
MaxCalls == 2
\* clock ticks over one run
MaxTicks == 2
\* minutes per clock tick
TickMinutes == 30

\* freshness window of a held token, in minutes (spec section 3)
TTL == 55

\* handler invocations that can be alive in the isolate at the same time
Slots == {1, 2}
\* the invocation used when calls arrive one after the other
Serial == {1}

NoToken == <<>>
Never == 0 - 1

-----------------------------------------------------------------------------
(* Inputs *)

Methods == {"GET", "POST"}

\* url.pathname, as a sequence of "/" and path words
Paths ==
  { <<"/", "api", "/">>,
    <<"/", "api">>,
    <<"/", "api", "/", "games">> }

\* inbound request bodies (bytes)
ReqBodies == { <<"q1">>, <<"BOM", "q2">> }

\* backend response bodies (bytes)
BackBodies == { <<"a">>, <<"BOM", "BAD">> }

BackStatuses == {200, 201, 401, 404}

\* a binding of Env: a string, or undefined when the binding is not configured
Binding(str) == [present |-> TRUE, str |-> str]
Unbound == [present |-> FALSE, str |-> <<>>]

\* the worker's configuration, complete
Configured == [IGDB_CLIENT_ID |-> Binding(<<"id">>), IGDB_CLIENT_SECRET |-> Binding(<<"s1">>)]

\* the same configuration with another client secret
OtherSecret == [Configured EXCEPT !.IGDB_CLIENT_SECRET = Binding(<<"s2">>)]

\* configurations that lack the client identifier, the client secret, or both
Unconfigured ==
  { [IGDB_CLIENT_ID |-> Unbound, IGDB_CLIENT_SECRET |-> Binding(<<"s1">>)],
    [IGDB_CLIENT_ID |-> Binding(<<"id">>), IGDB_CLIENT_SECRET |-> Unbound],
    [IGDB_CLIENT_ID |-> Unbound, IGDB_CLIENT_SECRET |-> Unbound] }

\* access_token member of the identity provider's JSON answer
AccessTokens ==
  { [type |-> "absent", str |-> <<>>],
    [type |-> "number", str |-> <<>>],
    [type |-> "string", str |-> <<>>],
    [type |-> "string", str |-> <<" ", " ">>],
    [type |-> "string", str |-> <<" ", "t1", " ">>],
    [type |-> "string", str |-> <<"t2">>] }

\* what the fetch of the token URL can produce
IdpAnswers ==
  { [kind |-> "neterr", status |-> 0, text |-> <<>>, shape |-> "none",
     access_token |-> [type |-> "absent", str |-> <<>>]] }
  \cup
  { [kind |-> "http", status |-> 403, text |-> <<"denied">>, shape |-> "none",
     access_token |-> [type |-> "absent", str |-> <<>>]] }
  \cup
  { [kind |-> "http", status |-> 200, text |-> <<>>, shape |-> s,
     access_token |-> [type |-> "absent", str |-> <<>>]] : s \in {"invalid", "null"} }
  \cup
  { [kind |-> "http", status |-> 200, text |-> <<>>, shape |-> "object",
     access_token |-> a] : a \in AccessTokens }

\* what the fetch of the backend URL can produce
BackAnswers ==
  { [kind |-> "neterr", status |-> 0, body |-> <<>>] }
  \cup
  { [kind |-> "http", status |-> s, body |-> b] : s \in BackStatuses, b \in BackBodies }

-----------------------------------------------------------------------------
(* Pure helpers *)

\* Response.ok
Ok(status) == status >= 200 /\ status <= 299

\* Body.text(): UTF-8 decode.  A leading byte order mark is dropped and every
\* malformed byte becomes U+FFFD.  Handing the string to `new Response` or to
\* `fetch` encodes it again, which maps every character to its own bytes.
Text(bytes) ==
  LET s == IF Len(bytes) > 0 /\ bytes[1] = "BOM" THEN Tail(bytes) ELSE bytes
  IN  [i \in 1..Len(s) |-> IF s[i] = "BAD" THEN "FFFD" ELSE s[i]]

RECURSIVE TrimStart(_)
TrimStart(s) == IF Len(s) > 0 /\ s[1] = " " THEN TrimStart(Tail(s)) ELSE s

RECURSIVE TrimEnd(_)
TrimEnd(s) ==
  IF Len(s) > 0 /\ s[Len(s)] = " " THEN TrimEnd(SubSeq(s, 1, Len(s) - 1)) ELSE s

\* String.prototype.trim
Trim(s) == TrimEnd(TrimStart(s))

\* pathname.replace(/^\/api\//, "")
StripApiPrefix(path) ==
  IF Len(path) >= 3 /\ SubSeq(path, 1, 3) = <<"/", "api", "/">>
  THEN SubSeq(path, 4, Len(path))
  ELSE path

\* igdbEndpoint.replace(/^\//, "")
StripLeadingSlash(e) == IF Len(e) > 0 /\ e[1] = "/" THEN Tail(e) ELSE e

\* the test `!igdbEndpoint`, made on the path right after the /api/ prefix is removed
MissingEndpoint(path) == StripApiPrefix(path) = <<>>

\* the endpoint appended to https://api.igdb.com/v4/
IgdbEndpoint(path) == StripLeadingSlash(StripApiPrefix(path))

\* a string of whitespace only (the empty string included)
Blank(str) == \A i \in 1..Len(str) : str[i] = " "

\* `${binding}` in a template literal
Interpolated(b) == IF b.present THEN b.str ELSE <<"undefined">>

\* tokenUrl
TokenUrl(e) ==
  <<"https://id.twitch.tv/oauth2/token?client_id=">> \o Interpolated(e.IGDB_CLIENT_ID)
    \o <<"&client_secret=">> \o Interpolated(e.IGDB_CLIENT_SECRET)
    \o <<"&grant_type=client_credentials">>

\* env.IGDB_CLIENT_ID?.trim(), as the value of the Client-ID header
ClientIdHeader(e) ==
  IF e.IGDB_CLIENT_ID.present THEN Trim(e.IGDB_CLIENT_ID.str) ELSE <<"undefined">>

-----------------------------------------------------------------------------
(* Responses to the caller *)

NoResp == [status |-> 0, body |-> <<>>, contentType |-> "none", cacheControl |-> "none"]

\* JSON.stringify({ error: ... })
BadRequestBody ==
  <<"{", "error", ":", "Missing IGDB endpoint in path. Expected /api/<endpoint>.", "}">>

\* JSON.stringify({ error: "Internal Server Error", details: err.message })
ErrorBody(message) ==
  <<"{", "error", ":", "Internal Server Error", ",", "details", ":">> \o message \o <<"}">>

BadRequest ==
  [status |-> 400, body |-> BadRequestBody,
   contentType |-> "application/json", cacheControl |-> "none"]

\* the response of the catch block
ErrorEnvelope(message) ==
  [status |-> 500, body |-> ErrorBody(message),
   contentType |-> "application/json", cacheControl |-> "none"]

\* a handler that wraps a backend error in its own error shape
PassThroughWrappingErrors(r) ==
  IF ~Ok(r.status)
  THEN [status |-> r.status, body |-> ErrorBody(Text(r.body)),
        contentType |-> "application/json", cacheControl |-> "none"]
  ELSE [status |-> r.status, body |-> Text(r.body),
        contentType |-> "application/json", cacheControl |-> "public, max-age=300"]

\* a handler that sets Cache-Control on every response it passes through
PassThroughAlwaysCacheable(r) ==
  [status |-> r.status, body |-> Text(r.body),
   contentType |-> "application/json", cacheControl |-> "public, max-age=300"]

\* the response built from the final backend response
PassThrough(r) ==
  IF ~Ok(r.status)
  THEN [status |-> r.status, body |-> Text(r.body),
        contentType |-> "application/json", cacheControl |-> "none"]
  ELSE [status |-> r.status, body |-> Text(r.body),
        contentType |-> "application/json", cacheControl |-> "public, max-age=300"]

\* a handler that tests the first backend response for another status
NeedsRetryOn403(pc, status) == pc = "fwd1" /\ status = 403

\* a handler that goes back to acquire a token on every 401
NeedsRetryOnEvery401(pc, status) == status = 401

\* the 401 test, which the handler makes once, on the first backend response
NeedsRetry(pc, status) == pc = "fwd1" /\ status = 401

\* a handler that stores every successful response
StorableIfOk(r) == Ok(r.status)

\* the condition guarding ctx.waitUntil(caches.default.put(...))
Storable(r) == r.status = 200

-----------------------------------------------------------------------------
(* getAppToken, from the answer to its fetch of the token URL *)

Thrown(message) == [ok |-> FALSE, token |-> NoToken, message |-> message]
Returned(token) == [ok |-> TRUE, token |-> token, message |-> <<>>]

\* a getAppToken that does not trim the credential
TokenOfUntrimmed(a) ==
  IF a.type = "absent" THEN Thrown(<<"Invalid response format from token endpoint">>)
  ELSE IF a.type = "number" THEN Thrown(<<"tokenData.access_token?.trim is not a function">>)
  ELSE IF a.str = <<>> THEN Thrown(<<"Invalid response format from token endpoint">>)
  ELSE Returned(a.str)

\* tokenData.access_token?.trim(), then the test `!token`
TokenOf(a) ==
  IF a.type = "absent" THEN Thrown(<<"Invalid response format from token endpoint">>)
  ELSE IF a.type = "number" THEN Thrown(<<"tokenData.access_token?.trim is not a function">>)
  ELSE IF Trim(a.str) = <<>> THEN Thrown(<<"Invalid response format from token endpoint">>)
  ELSE Returned(Trim(a.str))

getAppToken(ans) ==
  IF ans.kind = "neterr" THEN Thrown(<<"Network connection lost.">>)
  ELSE IF ~Ok(ans.status)
  THEN Thrown(<<"Failed to fetch IGDB token: ", ToString(ans.status), " - ">> \o Text(ans.text))
  ELSE IF ans.shape = "invalid" THEN Thrown(<<"Unexpected token in JSON">>)
  ELSE IF ans.shape = "null" THEN Thrown(<<"Cannot read properties of null">>)
  ELSE TokenOf(ans.access_token)

-----------------------------------------------------------------------------
(* State *)

\* a handler invocation that has not begun
IdleCall ==
  [pc |-> "idle", env |-> Configured, method |-> "GET", url |-> <<>>, reqBody |-> <<>>,
   tokenUrl |-> <<>>, igdbEndpoint |-> <<>>, incomingBody |-> <<>>, token |-> NoToken,
   idpLog |-> <<>>, fwdLog |-> <<>>, backLog |-> <<>>, nAcq |-> 0, failure |-> "none",
   resp |-> NoResp, hit |-> FALSE, fresh |-> FALSE, put |-> "none"]

\* no entry under a key of the edge cache
NoEntry ==
  [status |-> 0, body |-> <<>>, cacheControl |-> "none", reqBody |-> <<>>, backStatus |-> 0]

\* the key caches.default derives from the request handed to put(): its URL
CacheKey(method, url, body) == url

\* a held token is fresh while less than TTL minutes have passed since it was acquired
Fresh == firstAcqAt # Never /\ (now - firstAcqAt) * TickMinutes < TTL

Init ==
  /\ calls = [c \in Slots |-> IdleCall]
  /\ cache = [k \in Paths |-> NoEntry]
  /\ env = [c \in Slots |-> Configured]
  /\ started = 0
  /\ now = 0
  /\ firstAcqAt = Never
  /\ acqFresh = 0
  /\ seen401 = FALSE

\* a handler that falls back to the 401 it already holds when it cannot go on
CatchFallingBack(call, kind, message) ==
  IF call.backLog # <<>>
  THEN [call EXCEPT !.pc = "done", !.failure = kind, !.resp = PassThrough(call.backLog[1])]
  ELSE [call EXCEPT !.pc = "done", !.failure = kind, !.resp = ErrorEnvelope(message)]

\* a handler whose error details name the URL it was fetching
CatchNamingUrl(call, kind, message) ==
  [call EXCEPT !.pc = "done", !.failure = kind,
               !.resp = ErrorEnvelope(message \o <<" at ">> \o call.tokenUrl)]

\* a handler whose exception leaves it uncaught
CatchNothing(call, kind, message) == [call EXCEPT !.pc = "thrown", !.failure = kind]

\* the catch block: every exception thrown inside try becomes the 500 envelope
Catch(call, kind, message) ==
  [call EXCEPT !.pc = "done", !.failure = kind, !.resp = ErrorEnvelope(message)]

\* a call of getAppToken: the fetch of the token URL is issued and awaited
Acquire(call, pc) ==
  [call EXCEPT !.pc = pc, !.nAcq = @ + 1, !.tokenUrl = TokenUrl(call.env)]

\* a handler that forwards with a token kept in a variable that all invocations
\* share, so that it may pick up the token another invocation has put there
ForwardSharedToken(call, pc, token) ==
  LET others == {calls[d].token : d \in Slots} \ {NoToken, token}
      used == IF others # {} THEN CHOOSE t \in others : TRUE ELSE token
  IN  [call EXCEPT !.pc = pc, !.token = used,
                   !.fwdLog = Append(@, [endpoint |-> call.igdbEndpoint,
                                         body |-> call.incomingBody,
                                         clientId |-> ClientIdHeader(call.env),
                                         token |-> used])]

\* a handler that keeps the token it already has when it forwards again
ForwardStaleToken(call, pc, token) ==
  LET used == IF call.token # NoToken THEN call.token ELSE token
  IN  [call EXCEPT !.pc = pc, !.token = used,
                   !.fwdLog = Append(@, [endpoint |-> call.igdbEndpoint,
                                         body |-> call.incomingBody,
                                         clientId |-> ClientIdHeader(call.env),
                                         token |-> used])]

\* a fetch of igdbApiUrl with the current token and the body read from the request
Forward(call, pc, token) ==
  [call EXCEPT !.pc = pc, !.token = token,
               !.fwdLog = Append(@, [endpoint |-> call.igdbEndpoint,
                                     body |-> call.incomingBody,
                                     clientId |-> ClientIdHeader(call.env),
                                     token |-> token])]

\* a handler that takes a transport failure of its first forward like a 401
ForwardFailedRetried(call) ==
  IF call.pc = "fwd1"
  THEN Acquire(call, "acq2")
  ELSE Catch(call, "forward", <<"Network connection lost.">>)

\* the await of a fetch of igdbApiUrl rejects: the exception goes to the catch block
ForwardFailed(call) == Catch(call, "forward", <<"Network connection lost.">>)

\* a handler that awaits the cache write inside its try
PutAwaited(call, written) ==
  IF written
  THEN [call EXCEPT !.put = "stored"]
  ELSE [Catch(call, "put", <<"Cannot cache response to non-GET request.">>)
          EXCEPT !.put = "rejected"]

\* the promise handed to ctx.waitUntil settles; nobody awaits it
PutSettled(call, written) == [call EXCEPT !.put = IF written THEN "stored" ELSE "rejected"]

-----------------------------------------------------------------------------
(* The handler, one action per stretch between two awaits *)

\* fetch(request, env, ctx) up to the first await of the identity provider
Receive(c, m, p, b) ==
  /\ calls[c].pc = "idle"
  /\ started < MaxCalls
  /\ started' = started + 1
  /\ LET call == [IdleCall EXCEPT !.env = env[c], !.method = m, !.url = p, !.reqBody = b,
                                  !.hit = (m = "GET" /\ cache[CacheKey(m, p, b)] # NoEntry),
                                  !.fresh = Fresh]
     IN  IF MissingEndpoint(p)
         THEN /\ calls' = [calls EXCEPT ![c] = [call EXCEPT !.pc = "done", !.resp = BadRequest]]
              /\ UNCHANGED acqFresh
         ELSE /\ calls' = [calls EXCEPT ![c] =
                             Acquire([call EXCEPT !.igdbEndpoint = IgdbEndpoint(p),
                                                  !.incomingBody = Text(b)], "acq1")]
              /\ acqFresh' = IF Fresh THEN acqFresh + 1 ELSE acqFresh
  /\ UNCHANGED <<env, cache, now, firstAcqAt, seen401>>

\* getAppToken from the provider's answer on, then the fetch of the backend
TokenReply(c, ans) ==
  /\ calls[c].pc \in {"acq1", "acq2"}
  /\ LET r == getAppToken(ans)
         next == IF calls[c].pc = "acq1" THEN "fwd1" ELSE "fwd2"
         got == [calls[c] EXCEPT !.idpLog = Append(@, ans)]
     IN  IF r.ok
         THEN /\ calls' = [calls EXCEPT ![c] = Forward(got, next, r.token)]
              /\ firstAcqAt' = IF firstAcqAt = Never THEN now ELSE firstAcqAt
         ELSE /\ calls' = [calls EXCEPT ![c] = Catch(got, "acquisition", r.message)]
              /\ UNCHANGED firstAcqAt
  /\ UNCHANGED <<env, cache, started, now, acqFresh, seen401>>

\* from the backend's answer on: the 401 retry, or the response to the caller
BackendReply(c, ans) ==
  /\ calls[c].pc \in {"fwd1", "fwd2"}
  /\ IF ans.kind = "neterr"
     THEN /\ calls' = [calls EXCEPT ![c] = ForwardFailed(@)]
          /\ UNCHANGED <<acqFresh, seen401>>
     ELSE LET got == [calls[c] EXCEPT !.backLog = Append(@, [status |-> ans.status,
                                                            body |-> ans.body])]
          IN  IF NeedsRetry(got.pc, ans.status)
              THEN /\ calls' = [calls EXCEPT ![c] = Acquire(got, "acq2")]
                   /\ acqFresh' = IF got.fresh THEN acqFresh + 1 ELSE acqFresh
                   /\ seen401' = TRUE
              ELSE /\ calls' = [calls EXCEPT ![c] =
                                  [got EXCEPT !.pc = "done", !.resp = PassThrough(ans),
                                              !.put = IF Storable(ans) THEN "pending"
                                                      ELSE "none"]]
                   /\ seen401' = (seen401 \/ ans.status = 401)
                   /\ UNCHANGED acqFresh
  /\ UNCHANGED <<env, cache, started, now, firstAcqAt>>

\* the invocation ends: the response has gone to the caller and every promise
\* given to ctx.waitUntil has settled
Return(c) ==
  /\ calls[c].pc = "done"
  /\ calls[c].put # "pending"
  /\ calls' = [calls EXCEPT ![c] = IdleCall]
  /\ UNCHANGED <<env, cache, started, now, firstAcqAt, acqFresh, seen401>>

-----------------------------------------------------------------------------
(* The edge cache *)

\* the promise of caches.default.put(request, finalResponse.clone()) settles after
\* the handler has returned: put() rejects a request whose method is not GET, and
\* may fail for reasons of its own
CachePut(c, succeeds) ==
  /\ calls[c].pc = "done"
  /\ calls[c].put = "pending"
  /\ LET call == calls[c]
         written == succeeds /\ call.method = "GET"
     IN  /\ cache' = IF written
                     THEN [cache EXCEPT ![CacheKey(call.method, call.url, call.reqBody)] =
                             [status |-> call.resp.status, body |-> call.resp.body,
                              cacheControl |-> call.resp.cacheControl,
                              reqBody |-> call.reqBody,
                              backStatus |-> call.backLog[Len(call.backLog)].status]]
                     ELSE cache
         /\ calls' = [calls EXCEPT ![c] = PutSettled(@, written)]
  /\ UNCHANGED <<env, started, now, firstAcqAt, acqFresh, seen401>>

\* the cache drops an entry (max-age reached, or eviction)
CacheExpire(k) ==
  /\ cache[k] # NoEntry
  /\ cache' = [cache EXCEPT ![k] = NoEntry]
  /\ UNCHANGED <<env, calls, started, now, firstAcqAt, acqFresh, seen401>>

\* time passes
Tick ==
  /\ now < MaxTicks
  /\ now' = now + 1
  /\ UNCHANGED <<env, calls, cache, started, firstAcqAt, acqFresh, seen401>>

\* calls arrive one after the other
Next ==
  \/ \E c \in Serial, m \in Methods, p \in Paths, b \in ReqBodies : Receive(c, m, p, b)
  \/ \E c \in Slots, ans \in IdpAnswers : TokenReply(c, ans)
  \/ \E c \in Slots, ans \in BackAnswers : BackendReply(c, ans)
  \/ \E c \in Slots : Return(c)
  \/ \E c \in Slots, succeeds \in BOOLEAN : CachePut(c, succeeds)
  \/ \E k \in Paths : CacheExpire(k)
  \/ Tick

Spec == Init /\ [][Next]_vars

\* the worker deployed without its client identifier, its client secret, or both
ConfigInit ==
  /\ calls = [c \in Slots |-> IdleCall]
  /\ cache = [k \in Paths |-> NoEntry]
  /\ \E e \in Unconfigured : env = [c \in Slots |-> e]
  /\ started = 0
  /\ now = 0
  /\ firstAcqAt = Never
  /\ acqFresh = 0
  /\ seen401 = FALSE

ConfigSpec == ConfigInit /\ [][Next]_vars

-----------------------------------------------------------------------------
(* Calls that overlap in one isolate *)

ConcPaths == { <<"/", "api", "/", "games">> }

ConcBodies == { <<"q1">> }

ConcIdpAnswers ==
  { a \in IdpAnswers :
      \/ a.kind = "neterr"
      \/ a.status = 403
      \/ a.shape = "object" /\ a.access_token.type = "string" /\ ~Blank(a.access_token.str) }

ConcBackAnswers ==
  { [kind |-> "neterr", status |-> 0, body |-> <<>>],
    [kind |-> "http", status |-> 200, body |-> <<"a">>],
    [kind |-> "http", status |-> 401, body |-> <<"a">>],
    [kind |-> "http", status |-> 404, body |-> <<"BOM", "BAD">>] }

\* a second call may arrive while the first is suspended at an await
ConcNext ==
  \/ \E c \in Slots, p \in ConcPaths, b \in ConcBodies : Receive(c, "GET", p, b)
  \/ \E c \in Slots, ans \in ConcIdpAnswers : TokenReply(c, ans)
  \/ \E c \in Slots, ans \in ConcBackAnswers : BackendReply(c, ans)
  \/ \E c \in Slots : Return(c)
  \/ \E c \in Slots, succeeds \in BOOLEAN : CachePut(c, succeeds)
  \/ \E k \in Paths : CacheExpire(k)
  \/ Tick

ConcSpec == Init /\ [][ConcNext]_vars

\* calls one after the other, every request, one answer of each kind the
\* handler tells apart
SettlingNext ==
  \/ \E c \in Serial, m \in Methods, p \in Paths, b \in ReqBodies : Receive(c, m, p, b)
  \/ \E c \in Slots, ans \in ConcIdpAnswers : TokenReply(c, ans)
  \/ \E c \in Slots, ans \in ConcBackAnswers : BackendReply(c, ans)
  \/ \E c \in Slots : Return(c)
  \/ \E c \in Slots, succeeds \in BOOLEAN : CachePut(c, succeeds)
  \/ \E k \in Paths : CacheExpire(k)
  \/ Tick

\* every awaited fetch settles: it resolves or it rejects
Settling ==
  \A c \in Slots :
    /\ WF_vars(\E ans \in ConcIdpAnswers : TokenReply(c, ans))
    /\ WF_vars(\E ans \in ConcBackAnswers : BackendReply(c, ans))

FairSpec == Init /\ [][SettlingNext]_vars /\ Settling

\* two deployments that differ in the client secret alone, side by side
SecretInit ==
  /\ calls = [c \in Slots |-> IdleCall]
  /\ cache = [k \in Paths |-> NoEntry]
  /\ env = [c \in Slots |-> IF c = 1 THEN Configured ELSE OtherSecret]
  /\ started = 0
  /\ now = 0
  /\ firstAcqAt = Never
  /\ acqFresh = 0
  /\ seen401 = FALSE

SecretSpec == SecretInit /\ [][ConcNext]_vars

-----------------------------------------------------------------------------
(* Vocabulary of the properties *)

Last(s) == s[Len(s)]

\* the handler of slot c has returned its response
Done(c) == calls[c].pc = "done"

\* the 401 retry path was entered: the first backend response had status 401
Retried(c) == Len(calls[c].backLog) >= 1 /\ calls[c].backLog[1].status = 401

\* the call holds a final backend response: every forward it made was answered,
\* and the last answer is not a first 401 still to be retried
HasFinal(c) ==
  /\ Done(c)
  /\ Len(calls[c].backLog) >= 1
  /\ Len(calls[c].backLog) = Len(calls[c].fwdLog)
  /\ calls[c].failure = "none"

\* a success answer of the provider whose access_token is absent, empty or blank
Unusable(ans) ==
  /\ ans.kind = "http"
  /\ Ok(ans.status)
  /\ ans.shape = "object"
  /\ \/ ans.access_token.type = "absent"
     \/ ans.access_token.type = "string" /\ Blank(ans.access_token.str)

\* an answer of the provider from which no token can be had
IdpFails(ans) ==
  \/ ans.kind = "neterr"
  \/ ~Ok(ans.status)
  \/ ans.shape # "object"
  \/ ans.access_token.type # "string"
  \/ Blank(ans.access_token.str)

\* a JSON object text whose first member is `error`
HasErrorField(body) == Len(body) >= 2 /\ body[1] = "{" /\ body[2] = "error"

IsErrorEnvelope(r) ==
  r.status = 500 /\ r.contentType = "application/json" /\ HasErrorField(r.body)

\* the paths the specification calls an empty endpoint
EmptyEndpointPaths == { <<"/", "api", "/">>, <<"/", "api">> }

-----------------------------------------------------------------------------
(* C1 *)

\* C1, as stated: when the first backend response is 401, the call makes exactly
\* one more token acquisition and exactly one more forward, and its response is
\* built from the second backend response.
C1_AlwaysSecondResponse ==
  \A c \in Slots :
    (Done(c) /\ Retried(c)) =>
      /\ calls[c].nAcq = 2
      /\ Len(calls[c].fwdLog) = 2
      /\ Len(calls[c].backLog) = 2
      /\ calls[c].resp.status = calls[c].backLog[2].status

\* C1, amended: when the first backend response is 401, the call starts exactly
\* one more token acquisition; exactly one more forward occurs if that
\* acquisition succeeds and none if it fails; when the second forward is answered
\* the response to the caller is built from that second backend response,
\* whatever its status, and otherwise the caller receives the 500 envelope.
C1_RetryOnce ==
  \A c \in Slots :
    (Done(c) /\ Retried(c)) =>
      /\ calls[c].nAcq = 2
      /\ Len(calls[c].idpLog) = 2
      /\ Len(calls[c].fwdLog) = (IF IdpFails(calls[c].idpLog[2]) THEN 1 ELSE 2)
      /\ Len(calls[c].backLog) = 2 =>
           /\ Len(calls[c].fwdLog) = 2
           /\ calls[c].resp.status = calls[c].backLog[2].status
           /\ calls[c].resp.body = Text(calls[c].backLog[2].body)
      /\ Len(calls[c].backLog) = 1 => IsErrorEnvelope(calls[c].resp)

\* a call whose retried forward was answered 404, which it returns
C1_Witness ==
  \E c \in Slots :
    /\ Done(c) /\ Retried(c)
    /\ Len(calls[c].backLog) = 2
    /\ calls[c].backLog[2].status = 404
    /\ calls[c].resp.status = 404

-----------------------------------------------------------------------------
(* C2 *)

\* C2: when both forwards of a call are answered 401, there is no third forward
\* and no third acquisition, and the caller receives status 401 with the second
\* response's body unchanged.
C2_Second401Verbatim ==
  \A c \in Slots :
    (Done(c) /\ Len(calls[c].backLog) = 2
       /\ calls[c].backLog[1].status = 401 /\ calls[c].backLog[2].status = 401) =>
      /\ calls[c].nAcq = 2
      /\ Len(calls[c].fwdLog) = 2
      /\ calls[c].resp.status = 401
      /\ calls[c].resp.body = calls[c].backLog[2].body

-----------------------------------------------------------------------------
(* C3 *)

\* C3: over calls that all start less than TTL after a successful acquisition,
\* with no 401 from the backend, the token is not acquired again: such calls
\* make no call of getAppToken.
C3_FreshTokenReuse == ~seen401 => acqFresh = 0

-----------------------------------------------------------------------------
(* C4 *)

\* C4: a request whose path is /api/ or /api is answered 400 with a JSON error
\* body, with no call of the identity provider and no forward to the backend.
C4_EmptyEndpointRejected ==
  \A c \in Slots :
    (calls[c].pc # "idle" /\ calls[c].url \in EmptyEndpointPaths) =>
      /\ Done(c)
      /\ calls[c].resp.status = 400
      /\ HasErrorField(calls[c].resp.body)
      /\ calls[c].nAcq = 0
      /\ calls[c].fwdLog = <<>>

-----------------------------------------------------------------------------
(* C5 *)

\* C5: a call that arrives while the cache holds an entry under its key is served
\* that entry, with no token acquisition and no forward.
C5_CacheReadThrough ==
  \A c \in Slots :
    (calls[c].pc # "idle" /\ calls[c].hit) =>
      /\ calls[c].nAcq = 0
      /\ calls[c].fwdLog = <<>>

-----------------------------------------------------------------------------
(* C6 *)

\* C6: every entry of the cache was written by a call whose final backend
\* response had status 200; a call that ends with another backend status, with
\* the 400 rejection or with the 500 envelope issues no cache write.
C6_OnlyStatus200Stored ==
  /\ \A k \in Paths :
       cache[k] # NoEntry => (cache[k].backStatus = 200 /\ cache[k].status = 200)
  /\ \A c \in Slots :
       (Done(c) /\ ~(HasFinal(c) /\ Last(calls[c].backLog).status = 200)) =>
         calls[c].put = "none"

\* an entry is in the cache, and a call that ended with 201 wrote nothing
C6_Witness ==
  /\ \E k \in Paths : cache[k] # NoEntry
  /\ \E c \in Slots :
       HasFinal(c) /\ Last(calls[c].backLog).status = 201 /\ calls[c].put = "none"

-----------------------------------------------------------------------------
(* C7 *)

\* C7: when the provider answers with a success status and an access_token that
\* is absent, empty or blank, the acquisition fails, no forward follows it, and
\* the caller receives the 500 envelope.
C7_UnusableTokenFails ==
  \A c \in Slots :
    \A i \in 1..Len(calls[c].idpLog) :
      Unusable(calls[c].idpLog[i]) =>
        /\ Done(c)
        /\ i = Len(calls[c].idpLog)
        /\ Len(calls[c].fwdLog) = i - 1
        /\ calls[c].failure = "acquisition"
        /\ IsErrorEnvelope(calls[c].resp)

\* the first acquisition of a call got a blank access_token
C7_Witness ==
  \E c \in Slots :
    /\ Done(c)
    /\ Len(calls[c].idpLog) = 1
    /\ calls[c].idpLog[1].access_token = [type |-> "string", str |-> <<" ", " ">>]
    /\ calls[c].fwdLog = <<>>
    /\ calls[c].resp.status = 500

-----------------------------------------------------------------------------
(* C8 *)

\* C8: every internal failure of a call with a non-empty endpoint (the provider
\* unreachable, a non-success provider status, an unusable token body, a
\* transport failure of a forward) ends in status 500, Content-Type
\* application/json and a JSON body with an `error` member; none leaves the
\* handler as an exception.
C8_FailuresBecomeEnvelope ==
  \A c \in Slots :
    /\ calls[c].pc # "thrown"
    /\ (/\ calls[c].pc \notin {"idle", "acq1", "acq2"}
        /\ calls[c].idpLog # <<>>
        /\ IdpFails(Last(calls[c].idpLog))) =>
         (Done(c) /\ IsErrorEnvelope(calls[c].resp))
    /\ (Done(c) /\ Len(calls[c].fwdLog) > Len(calls[c].backLog)) =>
         IsErrorEnvelope(calls[c].resp)

\* a call whose retried forward failed in transport
C8_Witness ==
  \E c \in Slots :
    /\ Done(c)
    /\ Len(calls[c].fwdLog) = 2 /\ Len(calls[c].backLog) = 1
    /\ calls[c].resp.status = 500

-----------------------------------------------------------------------------
(* C9 *)

\* C9: the response to the caller has exactly the status and exactly the body of
\* the final backend response.
C9_PassThroughVerbatim ==
  \A c \in Slots :
    HasFinal(c) =>
      /\ calls[c].resp.status = Last(calls[c].backLog).status
      /\ calls[c].resp.body = Last(calls[c].backLog).body

-----------------------------------------------------------------------------
(* C10 *)

\* C10: the entry under a key is never overwritten by the response to a request
\* with another body.
C10_KeySeparatesBodies ==
  [][\A k \in Paths :
       (cache[k] # NoEntry /\ cache'[k] # NoEntry) => cache'[k].reqBody = cache[k].reqBody]_vars

-----------------------------------------------------------------------------
(* C11 *)

\* C11: the cache write is fire-and-forget: while it is pending, after it has
\* succeeded and after it has failed alike, the response of the call is the
\* pass-through of the 200 backend response, with the same status, headers and
\* body, and never the 500 envelope.
C11_PutNeverAltersResponse ==
  \A c \in Slots :
    calls[c].put \in {"pending", "stored", "rejected"} =>
      /\ HasFinal(c)
      /\ Last(calls[c].backLog).status = 200
      /\ calls[c].resp.status = 200
      /\ calls[c].resp.body = Text(Last(calls[c].backLog).body)
      /\ calls[c].resp.contentType = "application/json"
      /\ calls[c].resp.cacheControl = "public, max-age=300"

\* the cache write of a POST call was rejected and its response is the 200
C11_Witness ==
  \E c \in Slots :
    /\ calls[c].put = "rejected"
    /\ calls[c].method = "POST"
    /\ calls[c].resp.status = 200

-----------------------------------------------------------------------------
(* C12 *)

\* C12: a forward that fails in transport is not retried: the call ends at once
\* with the 500 envelope, with no further acquisition and no further forward;
\* a second acquisition or forward exists only after a 401 to the first forward.
C12_TransportFailureNotRetried ==
  \A c \in Slots :
    /\ (calls[c].pc \notin {"fwd1", "fwd2"}
          /\ Len(calls[c].fwdLog) > Len(calls[c].backLog)) =>
         /\ Done(c)
         /\ IsErrorEnvelope(calls[c].resp)
         /\ Len(calls[c].fwdLog) = Len(calls[c].backLog) + 1
         /\ calls[c].nAcq = Len(calls[c].fwdLog)
    /\ (calls[c].nAcq = 2 \/ Len(calls[c].fwdLog) = 2) => Retried(c)

\* the first forward of a call failed in transport
C12_Witness ==
  \E c \in Slots :
    /\ Done(c)
    /\ Len(calls[c].fwdLog) = 1 /\ calls[c].backLog = <<>>
    /\ calls[c].nAcq = 1
    /\ calls[c].resp.status = 500

-----------------------------------------------------------------------------
(* C13 *)

\* C13: on the 401 retry path the second forward goes to the same endpoint with
\* the same body as the first and carries the token returned by the
\* re-acquisition; when the retry is answered 200 the caller receives 200 with
\* the body of the retried response (as the handler reads it).
C13_RetryCarriesNewToken ==
  \A c \in Slots :
    Len(calls[c].fwdLog) = 2 =>
      /\ calls[c].fwdLog[2].endpoint = calls[c].fwdLog[1].endpoint
      /\ calls[c].fwdLog[2].body = calls[c].fwdLog[1].body
      /\ Len(calls[c].idpLog) = 2
      /\ ~IdpFails(calls[c].idpLog[2])
      /\ calls[c].fwdLog[2].token = Trim(calls[c].idpLog[2].access_token.str)
      /\ (HasFinal(c) /\ calls[c].backLog[2].status = 200) =>
           /\ calls[c].resp.status = 200
           /\ calls[c].resp.body = Text(calls[c].backLog[2].body)

\* a retry that carried another token than the first forward and was answered 200
C13_Witness ==
  \E c \in Slots :
    /\ HasFinal(c)
    /\ Len(calls[c].fwdLog) = 2
    /\ calls[c].fwdLog[1].token = <<"t1">>
    /\ calls[c].fwdLog[2].token = <<"t2">>
    /\ calls[c].backLog[2].status = 200
    /\ calls[c].resp.status = 200

-----------------------------------------------------------------------------
(* C14 *)

\* C14: when the client identifier or the client secret is missing from the
\* configuration, every call with a non-empty endpoint ends with the 500
\* envelope, whatever the identity provider and the backend answer.
C14_MissingConfigIsFatal ==
  \A c \in Slots :
    (/\ Done(c)
     /\ ~MissingEndpoint(calls[c].url)
     /\ (~calls[c].env.IGDB_CLIENT_ID.present \/ ~calls[c].env.IGDB_CLIENT_SECRET.present)) =>
      IsErrorEnvelope(calls[c].resp)

-----------------------------------------------------------------------------
(* C15 *)

\* the two calls got the same request and the same answers from the provider and
\* from the backend, under configurations that differ in the client secret
SameRunButSecret(c, d) ==
  /\ Done(c) /\ Done(d)
  /\ calls[c].env.IGDB_CLIENT_SECRET # calls[d].env.IGDB_CLIENT_SECRET
  /\ calls[c].env.IGDB_CLIENT_ID = calls[d].env.IGDB_CLIENT_ID
  /\ calls[c].method = calls[d].method
  /\ calls[c].url = calls[d].url
  /\ calls[c].reqBody = calls[d].reqBody
  /\ calls[c].idpLog = calls[d].idpLog
  /\ calls[c].backLog = calls[d].backLog
  /\ Len(calls[c].fwdLog) = Len(calls[d].fwdLog)

\* C15: no response holds the client secret: two calls that differ only in the
\* client secret and get the same answers return the same response, and the
\* secret occurs nowhere in a response body.
C15_SecretNotInResponse ==
  /\ \A c, d \in Slots : SameRunButSecret(c, d) => calls[c].resp = calls[d].resp
  /\ \A c \in Slots :
       \A i \in 1..Len(calls[c].resp.body) :
         calls[c].env.IGDB_CLIENT_SECRET.present =>
           calls[c].resp.body[i] \notin
             { calls[c].env.IGDB_CLIENT_SECRET.str[j] :
                 j \in 1..Len(calls[c].env.IGDB_CLIENT_SECRET.str) }

\* two calls under different secrets whose acquisition the provider refused alike
C15_Witness ==
  \E c, d \in Slots :
    /\ SameRunButSecret(c, d)
    /\ calls[c].tokenUrl # calls[d].tokenUrl
    /\ calls[c].idpLog # <<>>
    /\ Last(calls[c].idpLog).status = 403
    /\ calls[c].resp.status = 500
    /\ calls[c].resp = calls[d].resp

-----------------------------------------------------------------------------
(* C16 *)

\* what the logs of a call say its response must be when it runs alone
AloneConsistent(call) ==
  IF MissingEndpoint(call.url)
  THEN call.resp = BadRequest
  ELSE IF IdpFails(Last(call.idpLog)) \/ Len(call.fwdLog) > Len(call.backLog)
  THEN IsErrorEnvelope(call.resp)
  ELSE /\ call.resp.status = Last(call.backLog).status
       /\ call.resp.body = Text(Last(call.backLog).body)

\* C16: under every interleaving of overlapping calls, each forward carries the
\* token that the call's own successful acquisition returned, never an absent
\* one, and each call returns what its own request and its own answers from the
\* provider and the backend determine; no call fails because of another.
C16_CallsIndependent ==
  \A c \in Slots :
    /\ \A i \in 1..Len(calls[c].fwdLog) :
         /\ i <= Len(calls[c].idpLog)
         /\ ~IdpFails(calls[c].idpLog[i])
         /\ calls[c].fwdLog[i].token # NoToken
         /\ calls[c].fwdLog[i].token = Trim(calls[c].idpLog[i].access_token.str)
    /\ Done(c) => AloneConsistent(calls[c])

\* one call is acquiring again after a 401 while another, holding another token,
\* has its first forward in flight
C16_Witness ==
  \E c, d \in Slots :
    /\ calls[c].pc = "acq2"
    /\ calls[d].pc = "fwd1"
    /\ calls[d].fwdLog[1].token # calls[c].fwdLog[1].token

-----------------------------------------------------------------------------
(* C17 *)

\* shape 1: the final backend response passed through
IsPassThrough(call) ==
  /\ call.backLog # <<>>
  /\ Len(call.backLog) = Len(call.fwdLog)
  /\ call.resp.status = Last(call.backLog).status
  /\ call.resp.body = Text(Last(call.backLog).body)

\* shape 2: the 400 rejection
IsRejection(call) ==
  /\ call.idpLog = <<>> /\ call.fwdLog = <<>>
  /\ call.resp.status = 400
  /\ call.resp.body = BadRequestBody

\* shape 3: the 500 envelope
IsEnvelope(call) ==
  /\ call.resp.status = 500
  /\ HasErrorField(call.resp.body)
  /\ call.resp.body[4] = "Internal Server Error"

\* C17: the response of a call is exactly one of the backend pass-through, the
\* 400 rejection and the 500 envelope, never a mixture, and a call has a response
\* exactly from the moment its handler returns.
C17_OneShape ==
  \A c \in Slots :
    /\ Done(c) =>
         Cardinality({ k \in {1, 2, 3} :
                         \/ k = 1 /\ IsPassThrough(calls[c])
                         \/ k = 2 /\ IsRejection(calls[c])
                         \/ k = 3 /\ IsEnvelope(calls[c]) }) = 1
    /\ ~Done(c) => calls[c].resp = NoResp
    /\ Done(c) => calls[c].resp.contentType = "application/json"

\* a call that passed a 404 of the backend through
C17_Witness ==
  \E c \in Slots :
    /\ Done(c)
    /\ IsPassThrough(calls[c])
    /\ calls[c].resp.status = 404

-----------------------------------------------------------------------------
(* C18 *)

CacheHeader == "public, max-age=300"

\* C18, as stated: the response carries Cache-Control: public, max-age=300
\* exactly when the final backend status is 200.
C18_CacheControlIff200 ==
  \A c \in Slots :
    Done(c) =>
      (calls[c].resp.cacheControl = CacheHeader
         <=> (HasFinal(c) /\ Last(calls[c].backLog).status = 200))

\* C18, amended: the response carries Cache-Control: public, max-age=300 exactly
\* when the final backend status is a success status (200 to 299), which is wider
\* than the condition under which the response is stored (status 200 only);
\* pass-throughs of any other backend status, the 400 rejection and the 500
\* envelope carry no Cache-Control header.
C18_CacheControlIffOk ==
  \A c \in Slots :
    Done(c) =>
      /\ calls[c].resp.cacheControl \in {CacheHeader, "none"}
      /\ calls[c].resp.cacheControl = CacheHeader
           <=> (/\ calls[c].backLog # <<>>
                /\ Len(calls[c].backLog) = Len(calls[c].fwdLog)
                /\ Last(calls[c].backLog).status >= 200
                /\ Last(calls[c].backLog).status <= 299)
      /\ calls[c].put # "none" => calls[c].resp.cacheControl = CacheHeader

\* a 201 passed through with Cache-Control and without a cache write
C18_Witness ==
  \E c \in Slots :
    /\ HasFinal(c)
    /\ Last(calls[c].backLog).status = 201
    /\ calls[c].resp.cacheControl = CacheHeader
    /\ calls[c].put = "none"

-----------------------------------------------------------------------------
(* C19 *)

\* the first forward was answered 401 and the acquisition that followed failed
ReacquisitionFailed(c) ==
  /\ Retried(c)
  /\ Len(calls[c].idpLog) = 2
  /\ IdpFails(calls[c].idpLog[2])

\* C19: when the first forward is answered 401 and the re-acquisition fails, there
\* is no second forward, the 401 is not returned, nothing is written to the
\* cache, and the caller receives the 500 envelope.
C19_FailedReacquisition ==
  \A c \in Slots :
    ReacquisitionFailed(c) =>
      /\ Done(c)
      /\ Len(calls[c].fwdLog) = 1
      /\ calls[c].resp.status # 401
      /\ calls[c].resp.body # Text(calls[c].backLog[1].body)
      /\ IsErrorEnvelope(calls[c].resp)
      /\ calls[c].put = "none"

\* a re-acquisition that the provider refused with 403
C19_Witness ==
  \E c \in Slots :
    /\ ReacquisitionFailed(c)
    /\ calls[c].idpLog[2].status = 403
    /\ calls[c].resp.status = 500

-----------------------------------------------------------------------------
(* C20 *)

\* C20: when every fetch the handler awaits settles, every call that has begun
\* returns a response, having made at most two acquisitions and at most two
\* forwards.
C20_Terminates ==
  /\ [](\A c \in Slots : calls[c].nAcq <= 2 /\ Len(calls[c].fwdLog) <= 2)
  /\ \A c \in Slots : (calls[c].pc \notin {"idle", "done"}) ~> Done(c)

\* a call that returned after two acquisitions and two forwards
C20_Witness ==
  \E c \in Slots :
    /\ Done(c)
    /\ calls[c].nAcq = 2
    /\ Len(calls[c].fwdLog) = 2
    /\ Len(calls[c].backLog) = 2

====
